---- MODULE Spec2Model ----
(***************************************************************************)
(* KSight informer core: InformerManager, ResourceVersionStore,            *)
(* DatabaseCache and the sensitivity redactor (pkg/informer), together     *)
(* with the client-go informer factory the manager drives.                 *)
(***************************************************************************)
EXTENDS Integers, Sequences, FiniteSets, TLC

(* ------------------------------ bounds -------------------------------- *)
\* state-changing calls the host makes (AddCluster, AddResourceWatcher,
\* RemoveResourceWatcher, RemoveCluster, the first Shutdown; a repeated
\* Shutdown reaches finitely many states and is not counted)
MaxCalls == 4
\* notifications the informers produce from the API server
MaxNotifs == 2
\* resource versions 1..MaxVersion (0 stands for the empty string)
MaxVersion == 2
\* handler trios ever attached to one informer
MaxListeners == 2
\* AddResourceWatcher calls between their lookup and cluster.mu.Lock
MaxPending == 2

(* ----------------------------- universe ------------------------------- *)
ClusterIDs == {"c1", "c2"}
GVRs == {"pods", "secrets"}
Names == {"a", "b"}
Servers == {"s1"}
NoConn == 0
None == [none |-> TRUE]
REDACTED == [str |-> "<redacted>"]

\* what the host passes as kubeconfig: inline YAML, a file path, text that is
\* neither, and a config no client can be built from
Kubeconfigs == {"inline", "path", "garbage", "noclient"}

\* schema.GroupVersionResource of the two watched resources
GroupOf(g) == ""
KindOf(g) == IF g = "secrets" THEN "Secret" ELSE "Pod"
\* gvr.String(): "group/version/resource"
GVRString(g) == <<GroupOf(g), "v1", g>>

(* ------------------------------ errors -------------------------------- *)
\* An error message is the sequence of its parts (a GVR stands for its
\* gvr.String()); nil is the empty sequence.
\* strings.Contains(err.Error(), part)
Contains(msg, part) == \E i \in 1..Len(msg) : msg[i] = part

\* the answers of the pre-flight List: success, the API server's 401 Status
\* (message "Unauthorized"), a 401 without a Status body (the client's generic
\* message), and a 403
ListOK == [name |-> "ok", code |-> 200, msg |-> << >>]
ListUnauthorized == [name |-> "status401", code |-> 401, msg |-> <<"Unauthorized">>]
ListBare401 ==
    [name |-> "bare401", code |-> 401,
     msg |-> <<"the server has asked for the client to provide credentials">>]
ListForbidden == [name |-> "status403", code |-> 403, msg |-> <<"forbidden">>]
ListAnswers == {ListOK, ListUnauthorized, ListBare401, ListForbidden}

\* line 261: the denial is recognised by the text of the error
isUnauthorized(msg) == Contains(msg, "401") \/ Contains(msg, "Unauthorized")

\* lines 260-267: cluster.LastError and the error AddResourceWatcher returns
preflightLastError(g, msg) ==
    IF isUnauthorized(msg) THEN <<"Unauthorized access to", g, ":">> \o msg
    ELSE <<"Failed to access", g, ":">> \o msg
preflightError(c, g, msg) ==
    IF isUnauthorized(msg)
    THEN <<"unauthorized", "access to", g, "in cluster", c, ":">> \o msg
    ELSE msg

clusterNotFound_Nil(c) == << >>

\* fmt.Errorf("cluster %s not found", id)
clusterNotFound(c) == <<"cluster", c, "not found">>
watcherNotFound(g) == <<"watcher for", g, "not found">>

kubeconfigError_Lenient(kc) == << >>

\* AddCluster lines 166-179: the kubeconfig is parsed as content, then as a
\* file path; then the dynamic client is built
kubeconfigError(kc) ==
    CASE kc = "garbage" -> <<"failed to parse kubeconfig", ":">>
      [] kc = "noclient" -> <<"failed to create dynamic client", ":">>
      [] OTHER -> << >>

(* ------------------------ unstructured objects ------------------------ *)
\* A JSON value is [str |-> s], or [map |-> f] with f a function on keys.
IsMap(v) == "map" \in DOMAIN v
EmptyMap == [map |-> <<>>]
HasKey(v, k) == IsMap(v) /\ k \in DOMAIN v.map

\* what the API server holds under metadata for (server, gvr, name) at rv
MkMetadata(srv, g, name, rv) ==
    [map |-> [namespace |-> [str |-> "default"],
              name |-> [str |-> name],
              uid |-> [str |-> <<srv, g, name>>],
              resourceVersion |-> [str |-> rv]]]

\* the object the API server holds for (server, gvr, name) at version rv: a
\* Secret with a data entry, a Pod with a spec
MkObject(srv, g, name, rv) ==
    IF g = "secrets"
    THEN [map |-> [apiVersion |-> [str |-> <<GroupOf(g), "v1">>],
                   kind |-> [str |-> KindOf(g)],
                   metadata |-> MkMetadata(srv, g, name, rv),
                   data |-> [map |-> [password |-> [str |-> <<"c2VjcmV0", rv>>]]]]]
    ELSE [map |-> [apiVersion |-> [str |-> <<GroupOf(g), "v1">>],
                   kind |-> [str |-> KindOf(g)],
                   metadata |-> MkMetadata(srv, g, name, rv),
                   spec |-> [map |-> [nodeName |-> [str |-> <<"node", rv>>]]]]]

GetKind(o) == o.map.kind.str
GetName(o) == o.map.metadata.map.name.str
GetNamespace(o) == o.map.metadata.map.namespace.str
GetUID(o) == o.map.metadata.map.uid.str
GetResourceVersion(o) == o.map.metadata.map.resourceVersion.str
\* resource.GroupVersionKind(): the group parsed from apiVersion, and the kind
GroupVersionKind(o) == [Group |-> o.map.apiVersion.str[1], Kind |-> GetKind(o)]

(* -------------------------- sensitivity policy ------------------------ *)
\* DefaultSensitiveConfig.Resources, keyed by <<group, Kind>>; each path is
\* the sequence of its dotted segments
SensitiveKeys ==
    {<<"", "Secret">>, <<"external-secrets.io", "SecretStore">>,
     <<"external-secrets.io", "ClusterSecretStore">>,
     <<"bitnami.com", "SealedSecret">>, <<"cert-manager.io", "Certificate">>}

DefaultSensitiveConfig(key) ==
    CASE key = <<"", "Secret">> -> << <<"data">>, <<"stringData">> >>
      [] key = <<"external-secrets.io", "SecretStore">> ->
            << <<"spec", "provider">>, <<"spec", "auth">> >>
      [] key = <<"external-secrets.io", "ClusterSecretStore">> ->
            << <<"spec", "provider">>, <<"spec", "auth">> >>
      [] key = <<"bitnami.com", "SealedSecret">> -> << <<"spec", "encryptedData">> >>
      [] key = <<"cert-manager.io", "Certificate">> ->
            << <<"spec", "privateKey">>, <<"spec", "keystores">> >>
      [] OTHER -> << >>

\* isSensitiveResource: key from the GVR's group and the object's kind
isSensitiveResource(g, o) == <<GroupOf(g), GetKind(o)>> \in SensitiveKeys

\* sjson.Set(json, path, "<redacted>"): sets the value at the dotted path,
\* creating the intermediate objects and the terminal key when missing
RECURSIVE SjsonSet(_, _, _)
SjsonSet(v, path, new) ==
    IF path = << >> THEN new
    ELSE LET k == Head(path)
             base == IF IsMap(v) THEN v.map ELSE << >>
             sub == IF k \in DOMAIN base THEN base[k] ELSE EmptyMap
         IN [map |-> [x \in (DOMAIN base) \cup {k} |->
                        IF x = k THEN SjsonSet(sub, Tail(path), new) ELSE base[x]]]

\* redactFieldPath for a path without [*]
redactFieldPath(o, path) == SjsonSet(o, path, REDACTED)

RECURSIVE RedactPaths(_, _)
RedactPaths(o, paths) ==
    IF paths = << >> THEN o
    ELSE RedactPaths(redactFieldPath(o, Head(paths)), Tail(paths))

redactSensitiveFields_Identity(o) == o

\* redactSensitiveFields: deep copy, key from the object's own group and kind
redactSensitiveFields(o) ==
    LET gvk == GroupVersionKind(o)
        key == <<gvk.Group, gvk.Kind>>
    IN IF key \in SensitiveKeys THEN RedactPaths(o, DefaultSensitiveConfig(key)) ELSE o

resourceAfterRedact_InPlace(o) == redactSensitiveFields(o)

\* what the resource passed to redactSensitiveFields holds when the call has
\* returned: lines 717 and 721 take resource.DeepCopy() and redactFieldPath
\* is given redacted.Object (line 735), so no write reaches the resource
resourceAfterRedact(o) == o

\* the value an object holds at a dotted path, None when the path is absent
RECURSIVE ValueAt(_, _)
ValueAt(v, path) ==
    IF path = << >> THEN v
    ELSE IF HasKey(v, Head(path)) THEN ValueAt(v.map[Head(path)], Tail(path))
    ELSE None

\* a JSON array is [arr |-> <<elements>>]
IsArr(v) == "arr" \in DOMAIN v

\* v with the value at the path replaced (the path exists in v)
RECURSIVE SetAt(_, _, _)
SetAt(v, path, new) ==
    IF path = << >> THEN new
    ELSE [map |-> [x \in DOMAIN v.map |->
                     IF x = Head(path) THEN SetAt(v.map[x], Tail(path), new) ELSE v.map[x]]]

\* redactArrayElements: in every element that is an object, all fields when
\* the remainder is empty, otherwise redactFieldPath with the remainder
redactArrayElements(arrayField, remainderPath) ==
    IF IsArr(arrayField)
    THEN [arr |-> [i \in 1..Len(arrayField.arr) |->
                     LET element == arrayField.arr[i]
                     IN IF ~IsMap(element) THEN element
                        ELSE IF remainderPath = << >>
                        THEN [map |-> [k \in DOMAIN element.map |-> REDACTED]]
                        ELSE redactFieldPath(element, remainderPath)]]
    ELSE arrayField

\* the loop of redactArrayFieldPath lines 786-799: every part of arrayPath,
\* the last one included, has to name an object
RECURSIVE NavigateObjects(_, _)
NavigateObjects(current, parts) ==
    IF parts = << >> THEN TRUE
    ELSE /\ Head(parts) \in DOMAIN current.map
         /\ IsMap(current.map[Head(parts)])
         /\ NavigateObjects(current.map[Head(parts)], Tail(parts))

\* redactArrayFieldPath for "arrayPath[*].remainderPath"
redactArrayFieldPath(o, arrayPath, remainderPath) ==
    IF ~NavigateObjects(o, arrayPath) THEN o
    ELSE SetAt(o, arrayPath, redactArrayElements(ValueAt(o, arrayPath), remainderPath))

\* a policy path: its segments up to [*] (all of them when it has none),
\* whether it has [*], and the segments after it
PlainPath(segs) == [prefix |-> segs, wild |-> FALSE, suffix |-> << >>]
WildPath(segs, rest) == [prefix |-> segs, wild |-> TRUE, suffix |-> rest]

\* redactFieldPath lines 751-754: a path with [*] goes to redactArrayFieldPath
redactPolicyPath(o, p) ==
    IF p.wild THEN redactArrayFieldPath(o, p.prefix, p.suffix)
    ELSE redactFieldPath(o, p.prefix)

(* ------------------------------- state -------------------------------- *)
VARIABLES
    clusters,      \* im.clusters: cluster id -> connection (NoConn when absent)
    conns,         \* every ClusterConnection ever created, with its factory
    store,         \* im.store.data: cluster id -> GVR -> version
    dbCache,       \* im.dbCache # nil
    dbClosed,      \* DatabaseCache.Close has been called on im.dbCache
    rows,          \* table resource_cache
    cacheWrites,   \* goroutines spawned by handleEvent, not yet run
    listeners,     \* handler trios attached to the informers, with their queues
    indexer,       \* the informers' object stores
    handled,       \* Events the event handler has received, in order
    nSeq,          \* notifications produced so far
    ctxCancelled,  \* im.ctx is cancelled
    aw,            \* AddResourceWatcher calls between lookup and cluster.mu.Lock
    rc,            \* RemoveCluster inside Factory.Shutdown, holding both locks
    sd,            \* where Shutdown is
    calls,         \* calls the host has made so far
    ret,           \* the call that returned last, with what it returned
    file,          \* the version-store file at im.store.storePath
    saves,         \* goroutines "go rvs.save()": n not yet run, writing what those
                   \* that hold rvs.mu.RLock have marshalled, old what those
                   \* left by earlier Managers will write
    crashed        \* the process has panicked

vars == <<clusters, conns, store, dbCache, dbClosed, rows, cacheWrites, listeners, indexer,
          handled, nSeq, ctxCancelled, aw, rc, sd, calls, ret, file, saves, crashed>>

\* the version-store file, its pending writers and the process's liveness
persistVars == <<file, saves, crashed>>

ConnIds == 1..Len(conns)
NoEntry == [absent |-> TRUE]
EmptyVersions == [g \in GVRs |-> 0]

\* what a call returned: err is nil when msg is empty; in is the input that
\* decided the outcome, listed whether the call issued the pre-flight List,
\* obj the object it returned (None when it returns none)
Return(op, c, g, in, msg, listed, obj, sens) ==
    [op |-> op, c |-> c, g |-> g, in |-> in, ok |-> msg = << >>, msg |-> msg,
     listed |-> listed, obj |-> obj, sens |-> sens]
Returned(op, c, g, in, msg) == Return(op, c, g, in, msg, FALSE, None, FALSE)

(* --------------------------- version-store file ---------------------- *)
\* The file is missing, unreadable, not JSON at all (which includes a file
\* truncated to nothing), or holds a JSON value; besides strings and objects a
\* JSON value here may be a number [num |-> n] or null.
FileMissing == [kind |-> "missing"]
FileUnreadable == [kind |-> "unreadable"]
FileGarbage == [kind |-> "garbage"]
FileJSON(v) == [kind |-> "json", val |-> v]
JSONNull == [null |-> TRUE]
IsStr(v) == "str" \in DOMAIN v

\* a nil inner map: reads of it yield "", an assignment into it panics
NilMap == [nilmap |-> TRUE]
EmptyStore == [c \in ClusterIDs |-> NoEntry]

\* json.MarshalIndent(rvs.data): an object per cluster with the GVRs that
\* hold a version
MarshalInner(m) ==
    IF m = NilMap THEN JSONNull
    ELSE [map |-> [g \in {x \in GVRs : m[x] # 0} |-> [str |-> m[g]]]]
Marshal(data) ==
    FileJSON([map |-> [c \in {x \in ClusterIDs : data[x] # NoEntry} |->
                          MarshalInner(data[c])]])

\* json.Unmarshal into map[string]map[string]string: a value of the wrong
\* type is skipped and its key is stored with the zero value, and decoding
\* carries on with the rest
UnmarshalInner(v) ==
    IF IsMap(v)
    THEN [g \in GVRs |-> IF g \in DOMAIN v.map /\ IsStr(v.map[g]) THEN v.map[g].str ELSE 0]
    ELSE NilMap
Unmarshal(v) ==
    IF IsMap(v)
    THEN [c \in ClusterIDs |-> IF c \in DOMAIN v.map THEN UnmarshalInner(v.map[c])
                                ELSE NoEntry]
    ELSE EmptyStore

\* ResourceVersionStore.load: the store stays empty when the file is missing
\* or unreadable; the error of json.Unmarshal is ignored
load(f) == IF f.kind = "json" THEN Unmarshal(f.val) ELSE EmptyStore

\* getResourceVersion
getResourceVersion(data, c, g) ==
    IF data[c] = NoEntry \/ data[c] = NilMap THEN 0 ELSE data[c][g]

\* im.mu is write-locked while RemoveCluster or Shutdown waits in Factory.Shutdown
imMuFree == rc = None /\ sd # "wait"

\* cluster.mu of connection k is held by RemoveCluster while it waits
clusterMuFree(k) == IF rc = None THEN TRUE ELSE rc.conn # k

\* a ClusterConnection and its informer factory; inf[g] is the factory's
\* informer for g: "none", "idle" (materialized), "running" or "stopped"
NewConnection(id, srv) ==
    [ID |-> id, Server |-> srv, Status |-> "connected", LastError |-> << >>,
     Informers |-> {},
     shuttingDown |-> FALSE, inf |-> [g \in GVRs |-> "none"], pendingStart |-> FALSE,
     removed |-> FALSE, lastAddPassed |-> {},
     syncWait |-> {}, syncFailed |-> {}, synced |-> {},
     IsPinned |-> FALSE, pins |-> << >>]

SetConn(k, f) == [conns EXCEPT ![k] = f]

\* AddCluster(id, name, kubeconfig, context)
AddCluster(id, kc, srv) ==
    /\ ~crashed
    /\ imMuFree
    /\ calls < MaxCalls
    /\ calls' = calls + 1
    /\ ret' = Returned("addCluster", id, "", kc, kubeconfigError(kc))
    /\ IF kubeconfigError(kc) # << >>
       THEN UNCHANGED <<clusters, conns, store, listeners, indexer>>
       ELSE /\ conns' = Append(conns, NewConnection(id, srv))
            /\ clusters' = [clusters EXCEPT ![id] = Len(conns) + 1]
            /\ listeners' = Append(listeners, [g \in GVRs |-> << >>])
            /\ indexer' = Append(indexer, [g \in GVRs |-> [n \in Names |-> 0]])
            /\ store' = IF store[id] = NoEntry
                        THEN [store EXCEPT ![id] = EmptyVersions] ELSE store
    /\ UNCHANGED <<dbCache, dbClosed, rows, cacheWrites, handled, nSeq, ctxCancelled,
                   aw, rc, sd, persistVars>>

\* AddResourceWatcher, lines 240-246: look the connection up under im.mu.RLock
AddResourceWatcherLookup(c, g) ==
    /\ ~crashed
    /\ imMuFree
    /\ calls < MaxCalls
    /\ calls' = calls + 1
    /\ IF clusters[c] = NoConn
       THEN /\ ret' = Returned("addWatcher", c, g, "", clusterNotFound(c))
            /\ UNCHANGED aw
       ELSE /\ Len(aw) < MaxPending
            /\ aw' = Append(aw, [conn |-> clusters[c], cid |-> c, gvr |-> g])
            /\ UNCHANGED ret
    /\ UNCHANGED <<clusters, conns, store, dbCache, dbClosed, rows, cacheWrites,
                   listeners, indexer, handled, nSeq, ctxCancelled, rc, sd,
                   persistVars>>

\* informer.AddEventHandler on a running informer replays the indexer's
\* objects to the new listener as add notifications, in the order the
\* indexer lists them (any order)
ReplayOf(k, g, name, seq) ==
    [type |-> "add", name |-> name, rv |-> indexer[k][g][name], oldrv |-> 0,
     tomb |-> FALSE, oldMistyped |-> FALSE, seq |-> seq, detached |-> FALSE]

Replays(k, g) ==
    LET present == {n \in Names : indexer[k][g][n] # 0}
    IN IF conns[k].inf[g] # "running" \/ present = {} THEN { << >> }
       ELSE IF Cardinality(present) = 1
       THEN { << ReplayOf(k, g, CHOOSE n \in present : TRUE, nSeq + 1) >> }
       ELSE { << ReplayOf(k, g, n, nSeq + 1),
                 ReplayOf(k, g, CHOOSE m \in present : m # n, nSeq + 2) >> : n \in present }

alreadyWatching_Never(informers, g) == FALSE

\* lines 251-254: the call is a no-op when the GVR is in cluster.Informers
alreadyWatching(informers, g) == g \in informers

registerInformer_Always(informers, g, err) == informers \cup {g}

\* lines 260-286: the watcher is stored only when the pre-flight List passed
registerInformer(informers, g, err) == IF err = << >> THEN informers \cup {g} ELSE informers

\* x with its i-th element removed
RemoveAt(x, i) == [j \in 1..(Len(x) - 1) |-> IF j < i THEN x[j] ELSE x[j + 1]]

\* AddResourceWatcher, lines 248-304, under cluster.mu, for the i-th waiting
\* call; ans is the answer of the pre-flight List (testAPIAccess); a stopped
\* informer refuses the handlers
AddResourceWatcherBody(i, ans) ==
    /\ ~crashed
    /\ i \in 1..Len(aw)
    /\ clusterMuFree(aw[i].conn)
    /\ LET k == aw[i].conn
           c == aw[i].cid
           g == aw[i].gvr
           cn == conns[k]
           stopped == cn.inf[g] = "stopped"
       IN IF alreadyWatching(cn.Informers, g)
          THEN /\ ret' = Returned("addWatcher", c, g, "", << >>)
               /\ UNCHANGED <<conns, listeners, nSeq>>
          ELSE IF ans.msg # << >>
          THEN /\ conns' = SetConn(k, [cn EXCEPT !.Status = "error",
                                          !.LastError = preflightLastError(g, ans.msg),
                                          !.Informers = registerInformer(@, g, ans.msg),
                                          !.lastAddPassed = @ \ {g}])
               /\ ret' = Return("addWatcher", c, g, ans.name,
                                preflightError(c, g, ans.msg), TRUE, None, FALSE)
               /\ UNCHANGED <<listeners, nSeq>>
          ELSE \E replay \in Replays(k, g) :
               /\ IF stopped THEN TRUE ELSE Len(listeners[k][g]) < MaxListeners
               /\ conns' = SetConn(k, [cn EXCEPT !.Informers = registerInformer(@, g, ans.msg),
                                          !.inf[g] = IF @ = "none" THEN "idle" ELSE @,
                                          !.pendingStart = TRUE,
                                          !.lastAddPassed = @ \cup {g},
                                          !.syncWait = @ \cup {g}])
               /\ listeners' =
                    IF stopped THEN listeners
                    ELSE [listeners EXCEPT ![k][g] =
                            Append(@, [queue |-> replay, cur |-> None])]
               /\ nSeq' = IF stopped THEN nSeq ELSE nSeq + Len(replay)
               /\ ret' = Return("addWatcher", c, g, ans.name, << >>, TRUE, None, FALSE)
    /\ aw' = RemoveAt(aw, i)
    /\ UNCHANGED <<clusters, store, dbCache, dbClosed, rows, cacheWrites, indexer, handled,
                   ctxCancelled, rc, sd, calls, persistVars>>

removeInformer_Keep(informers, g) == informers

\* delete(cluster.Informers, gvr)
removeInformer(informers, g) == informers \ {g}

\* RemoveResourceWatcher(clusterID, gvr)
RemoveResourceWatcher(c, g) ==
    /\ ~crashed
    /\ imMuFree
    /\ calls < MaxCalls
    /\ calls' = calls + 1
    /\ IF clusters[c] = NoConn
       THEN /\ ret' = Returned("removeWatcher", c, g, "", clusterNotFound(c))
            /\ UNCHANGED conns
       ELSE LET k == clusters[c]
                cn == conns[k]
            IN /\ clusterMuFree(k)
               /\ IF g \notin cn.Informers
                  THEN /\ ret' = Returned("removeWatcher", c, g, "", watcherNotFound(g))
                       /\ conns' = SetConn(k, [cn EXCEPT !.lastAddPassed = @ \ {g}])
                  ELSE /\ ret' = Returned("removeWatcher", c, g, "", << >>)
                       /\ conns' = SetConn(k, [cn EXCEPT !.Informers = removeInformer(@, g),
                                                  !.lastAddPassed = @ \ {g}])
    /\ UNCHANGED <<clusters, store, dbCache, dbClosed, rows, cacheWrites, listeners, indexer,
                   handled, nSeq, ctxCancelled, aw, rc, sd, persistVars>>

\* go cluster.Factory.Start(im.ctx.Done()): starts every informer of the
\* factory that is not started yet, unless the factory is shutting down; with
\* the stop channel already closed the informer's Run returns at once
FactoryStart(k) ==
    /\ ~crashed
    /\ conns[k].pendingStart
    /\ LET cn == conns[k]
       IN conns' = SetConn(k, [cn EXCEPT !.pendingStart = FALSE,
                     !.inf = [g \in GVRs |->
                                IF cn.inf[g] = "idle" /\ ~cn.shuttingDown
                                THEN (IF ctxCancelled THEN "stopped" ELSE "running")
                                ELSE cn.inf[g]]])
    /\ UNCHANGED <<clusters, store, dbCache, dbClosed, rows, cacheWrites, listeners, indexer,
                   handled, nSeq, ctxCancelled, aw, rc, sd, calls, ret, persistVars>>

\* the goroutine of lines 292-302: cache.WaitForCacheSync returns true, the
\* informer has synced, and the goroutine ends
SyncWaitSucceeds(k, g) ==
    /\ ~crashed
    /\ g \in conns[k].syncWait
    /\ conns[k].inf[g] = "running"
    /\ conns' = SetConn(k, [conns[k] EXCEPT !.syncWait = @ \ {g}, !.synced = @ \cup {g}])
    /\ UNCHANGED <<clusters, store, dbCache, dbClosed, rows, cacheWrites, listeners, indexer,
                   handled, nSeq, ctxCancelled, aw, rc, sd, calls, ret, persistVars>>

\* WaitForCacheSync returns false: the 30 seconds have passed, or the
\* Manager's context was cancelled, before the informer synced; the goroutine
\* goes for cluster.mu
SyncWaitGivesUp(k, g) ==
    /\ ~crashed
    /\ g \in conns[k].syncWait
    /\ conns' = SetConn(k, [conns[k] EXCEPT !.syncWait = @ \ {g}, !.syncFailed = @ \cup {g}])
    /\ UNCHANGED <<clusters, store, dbCache, dbClosed, rows, cacheWrites, listeners, indexer,
                   handled, nSeq, ctxCancelled, aw, rc, sd, calls, ret, persistVars>>

statusOnSyncFailure_Connected == "connected"

\* line 298: cluster.Status = "error"
statusOnSyncFailure == "error"

\* line 299: cluster.LastError
syncLastError(g) == <<"failed to sync cache for", g>>

\* lines 297-300: under cluster.mu the cluster is marked
SyncMarkError(k, g) ==
    /\ ~crashed
    /\ g \in conns[k].syncFailed
    /\ clusterMuFree(k)
    /\ conns' = SetConn(k, [conns[k] EXCEPT !.syncFailed = @ \ {g},
                                           !.Status = statusOnSyncFailure,
                                           !.LastError = syncLastError(g)])
    /\ UNCHANGED <<clusters, store, dbCache, dbClosed, rows, cacheWrites, listeners, indexer,
                   handled, nSeq, ctxCancelled, aw, rc, sd, calls, ret, persistVars>>

\* an informer goroutine returns from Run once the stop channel is closed and
\* its listeners have returned from their callbacks
InformerStop(k, g) ==
    /\ ~crashed
    /\ ctxCancelled
    /\ conns[k].inf[g] = "running"
    /\ \A i \in 1..Len(listeners[k][g]) : listeners[k][g][i].cur = None
    /\ conns' = SetConn(k, [conns[k] EXCEPT !.inf[g] = "stopped"])
    /\ listeners' = [listeners EXCEPT ![k][g] =
                        [i \in 1..Len(@) |-> [queue |-> << >>, cur |-> None]]]
    /\ UNCHANGED <<clusters, store, dbCache, dbClosed, rows, cacheWrites, indexer, handled,
                   nSeq, ctxCancelled, aw, rc, sd, calls, ret, persistVars>>

\* RemoveCluster, lines 207-226: both locks taken, watchers deleted,
\* Factory.Shutdown entered (it marks the factory and waits for its goroutines)
RemoveClusterBegin(c) ==
    /\ ~crashed
    /\ imMuFree
    /\ calls < MaxCalls
    /\ calls' = calls + 1
    /\ IF clusters[c] = NoConn
       THEN /\ ret' = Returned("removeCluster", c, "", "", clusterNotFound(c))
            /\ UNCHANGED <<conns, rc>>
       ELSE LET k == clusters[c]
            IN /\ conns' = SetConn(k, [conns[k] EXCEPT !.Informers = {},
                                          !.shuttingDown = TRUE])
               /\ rc' = [conn |-> k, cid |-> c]
               /\ UNCHANGED ret
    /\ UNCHANGED <<clusters, store, dbCache, dbClosed, rows, cacheWrites, listeners,
                   indexer, handled, nSeq, ctxCancelled, aw, sd, persistVars>>

\* Factory.Shutdown returns when no informer goroutine of the factory is left
FactoryShutdownReturns(k) == \A g \in GVRs : conns[k].inf[g] # "running"

\* RemoveCluster, lines 228-235: the registry entry and the cluster's versions
\* are deleted and the store is saved
RemoveClusterFinish ==
    /\ ~crashed
    /\ rc # None
    /\ FactoryShutdownReturns(rc.conn)
    /\ clusters' = [clusters EXCEPT ![rc.cid] = NoConn]
    /\ store' = [store EXCEPT ![rc.cid] = NoEntry]
    /\ file' = Marshal(store')
    /\ conns' = SetConn(rc.conn, [conns[rc.conn] EXCEPT !.removed = TRUE])
    /\ ret' = Returned("removeCluster", rc.cid, "", "", << >>)
    /\ rc' = None
    /\ UNCHANGED <<dbCache, dbClosed, rows, cacheWrites, listeners, indexer, handled, nSeq,
                   ctxCancelled, aw, sd, calls, saves, crashed>>

\* im.cancel(): the Manager's context is done from here on
cancel == TRUE

\* Shutdown, line 402: im.cancel() before any lock is taken
ShutdownCancel ==
    /\ ~crashed
    /\ sd = "idle"
    /\ ctxCancelled \/ calls < MaxCalls
    /\ calls' = IF ctxCancelled THEN calls ELSE calls + 1
    /\ ctxCancelled' = cancel
    /\ sd' = "cancelled"
    /\ UNCHANGED <<clusters, conns, store, dbCache, dbClosed, rows, cacheWrites, listeners,
                   indexer, handled, nSeq, aw, rc, ret, persistVars>>

\* Shutdown, lines 404-409: im.mu.Lock, then Factory.Shutdown of every
\* registered cluster, which marks the factory before it waits
ShutdownLock ==
    /\ ~crashed
    /\ sd = "cancelled"
    /\ imMuFree
    /\ conns' = [k \in ConnIds |->
                    IF clusters[conns[k].ID] = k
                    THEN [conns[k] EXCEPT !.shuttingDown = TRUE] ELSE conns[k]]
    /\ sd' = "wait"
    /\ UNCHANGED <<clusters, store, dbCache, dbClosed, rows, cacheWrites, listeners, indexer,
                   handled, nSeq, ctxCancelled, aw, rc, calls, ret, persistVars>>

\* Shutdown, lines 409-412: the factories' goroutines are gone, the store is saved
ShutdownReturn ==
    /\ ~crashed
    /\ sd = "wait"
    /\ \A c \in ClusterIDs : clusters[c] # NoConn => FactoryShutdownReturns(clusters[c])
    /\ sd' = "idle"
    /\ file' = Marshal(store)
    /\ ret' = Returned("shutdown", "", "", "", << >>)
    /\ UNCHANGED <<clusters, conns, store, dbCache, dbClosed, rows, cacheWrites, listeners,
                   indexer, handled, nSeq, ctxCancelled, aw, rc, calls, saves, crashed>>

\* CleanupTestData, lines 414-433: under im.mu the store is replaced by an
\* empty one, the cache is closed and its directory removed, the version
\* file is removed
CleanupTestData ==
    /\ ~crashed
    /\ imMuFree
    /\ calls < MaxCalls
    /\ calls' = calls + 1
    /\ store' = EmptyStore
    /\ dbClosed' = dbCache
    /\ rows' = IF dbCache THEN {} ELSE rows
    /\ file' = FileMissing
    /\ ret' = Returned("cleanup", "", "", "", << >>)
    /\ UNCHANGED <<clusters, conns, dbCache, cacheWrites, listeners, indexer,
                   handled, nSeq, ctxCancelled, aw, rc, sd, saves, crashed>>

(* ----------------------------- informers ------------------------------ *)
\* every listener of the informer gets the notification appended to its queue
Distribute(k, g, n) ==
    listeners' = [listeners EXCEPT ![k][g] =
                    [i \in 1..Len(@) |-> [@[i] EXCEPT !.queue = Append(@, n)]]]

\* the informer of (k, g) sees a change of object name on the API server (or
\* a resync) and notifies its listeners: add with the object's version, update
\* with the prior object (a resync repeats the version), delete with the last
\* known object or a DeletedFinalStateUnknown tombstone; oldMistyped: the
\* prior object of the update is handed over as something that is no
\* unstructured object
InformerNotifyWith(k, g, name, rv, del, tomb, oldMistyped) ==
    /\ ~crashed
    /\ conns[k].inf[g] = "running"
    /\ nSeq < MaxNotifs
    /\ LET old == indexer[k][g][name]
           n == [type |-> IF old = 0 THEN "add" ELSE IF del THEN "delete" ELSE "update",
                 name |-> name, rv |-> rv, oldrv |-> IF del THEN 0 ELSE old,
                 tomb |-> tomb, oldMistyped |-> oldMistyped, seq |-> nSeq + 1,
                 detached |-> g \notin conns[k].Informers]
       IN /\ rv >= old
          /\ tomb => old # 0 /\ del
          /\ del => old # 0
          /\ oldMistyped => n.type = "update"
          /\ Distribute(k, g, n)
          /\ indexer' = [indexer EXCEPT ![k][g][name] = IF n.type = "delete" THEN 0 ELSE rv]
    /\ nSeq' = nSeq + 1
    /\ UNCHANGED <<clusters, conns, store, dbCache, dbClosed, rows, cacheWrites, handled,
                   ctxCancelled, aw, rc, sd, calls, ret, persistVars>>

\* the notifications of a dynamic informer: every prior object is unstructured
InformerNotify(k, g, name, rv, del, tomb) == InformerNotifyWith(k, g, name, rv, del, tomb, FALSE)

(* ------------------------- version store, cache ----------------------- *)
setResourceVersion_Max(data, c, g, version) ==
    LET cur == IF data[c] = NoEntry THEN EmptyVersions ELSE data[c]
    IN [data EXCEPT ![c] = [cur EXCEPT ![g] = IF version > @ THEN version ELSE @]]

\* ResourceVersionStore.setResourceVersion: creates the cluster's sub-map
\* when absent and overwrites the version
setResourceVersion(data, c, g, version) ==
    LET cur == IF data[c] = NoEntry THEN EmptyVersions ELSE data[c]
    IN [data EXCEPT ![c] = [cur EXCEPT ![g] = version]]

Identity(r) == <<r.cluster_id, r.gvr, r.namespace, r.name>>

dataToStore_Raw(g, o) == o

\* what StoreResource serializes: the redacted twin of a sensitive resource
dataToStore(g, o) == IF isSensitiveResource(g, o) THEN redactSensitiveFields(o) ELSE o

LastApplied == "kubectl.kubernetes.io/last-applied-configuration"

\* resource.GetAnnotations(): a new map holding the annotations
GetAnnotations(o) ==
    IF HasKey(o.map.metadata, "annotations") THEN o.map.metadata.map.annotations.map
    ELSE << >>

\* StoreResource lines 554-558: the annotation is deleted from the map that
\* GetAnnotations returned; that map is a copy, the resource is not written
afterAnnotationDelete(o) ==
    LET annotations == GetAnnotations(o)
        trimmed == [k \in (DOMAIN annotations) \ {LastApplied} |-> annotations[k]]
    IN o

StoreResource_DeleteOnly(table, c, g, o) ==
    {r \in table : r.uid # GetUID(o)
                     /\ Identity(r) # <<c, GVRString(g), GetNamespace(o), GetName(o)>>}

\* DatabaseCache.StoreResource: INSERT OR REPLACE removes the rows that
\* conflict on the primary key uid or on the UNIQUE identity
StoreResource(table, c, g, o) ==
    LET row == [uid |-> GetUID(o), cluster_id |-> c, gvr |-> GVRString(g),
                namespace |-> GetNamespace(o), name |-> GetName(o),
                resource_version |-> GetResourceVersion(o),
                data |-> dataToStore(g, afterAnnotationDelete(o)),
                is_sensitive |-> isSensitiveResource(g, o)]
    IN {r \in table : r.uid # row.uid /\ Identity(r) # Identity(row)} \cup {row}

\* the goroutine of handleEvent lines 367-372 runs
CacheWrite(t) ==
    /\ ~crashed
    /\ t \in cacheWrites
    /\ rows' = IF dbClosed THEN rows ELSE StoreResource(rows, t.cluster, t.gvr, t.obj)
    /\ cacheWrites' = cacheWrites \ {t}
    /\ UNCHANGED <<clusters, conns, store, dbCache, dbClosed, listeners, indexer, handled, nSeq,
                   ctxCancelled, aw, rc, sd, calls, ret, persistVars>>

\* a goroutine "go rvs.save()" of setResourceVersion runs: the file is
\* rewritten with the store's content
SaveRun ==
    /\ ~crashed
    /\ saves.n > 0
    /\ saves' = [saves EXCEPT !.n = @ - 1]
    /\ file' = Marshal(store)
    /\ UNCHANGED <<clusters, conns, store, dbCache, dbClosed, rows, cacheWrites, listeners,
                   indexer, handled, nSeq, ctxCancelled, aw, rc, sd, calls, ret, crashed>>

\* the same goroutine in two steps. save, lines 455-464: rvs.mu.RLock is
\* taken and the store is marshalled; the lock is held until the write is done
SaveMarshal ==
    /\ ~crashed
    /\ saves.n > 0
    /\ saves' = [saves EXCEPT !.n = @ - 1, !.writing = @ \cup {Marshal(store)}]
    /\ UNCHANGED <<clusters, conns, store, dbCache, dbClosed, rows, cacheWrites, listeners, indexer,
                   handled, nSeq, ctxCancelled, aw, rc, sd, calls, ret, file, crashed>>

\* save, lines 467-468: os.WriteFile of the marshalled bytes, RUnlock
SaveWrite(f) ==
    /\ ~crashed
    /\ f \in saves.writing
    /\ saves' = [saves EXCEPT !.writing = @ \ {f}]
    /\ file' = f
    /\ UNCHANGED <<clusters, conns, store, dbCache, dbClosed, rows, cacheWrites, listeners, indexer,
                   handled, nSeq, ctxCancelled, aw, rc, sd, calls, ret, crashed>>

\* RemoveCluster deletes from rvs.data at line 232 without rvs.mu while a
\* save goroutine iterates the map in json.MarshalIndent: the runtime may
\* stop the process with "concurrent map iteration and map write"
SaveMarshalDuringDelete ==
    /\ ~crashed
    /\ saves.n > 0
    /\ rc # None
    /\ FactoryShutdownReturns(rc.conn)
    /\ crashed' = TRUE
    /\ UNCHANGED <<clusters, conns, store, dbCache, dbClosed, rows, cacheWrites, listeners, indexer,
                   handled, nSeq, ctxCancelled, aw, rc, sd, calls, ret, file, saves>>

(* ----------------------------- handleEvent ---------------------------- *)
\* the objects a notification carries
NewObj(k, g, n) == MkObject(conns[k].Server, g, n.name, n.rv)
\* lines 353-358: a prior object that is no unstructured object is left out
OldObj(k, g, n) == IF n.type = "update" /\ ~n.oldMistyped
                   THEN MkObject(conns[k].Server, g, n.name, n.oldrv)
                   ELSE None

EventType_Added(n) == "ADDED"

\* the tag each callback passes to handleEvent, lines 274-282
EventType(n) == CASE n.type = "add" -> "ADDED"
                  [] n.type = "update" -> "MODIFIED"
                  [] n.type = "delete" -> "DELETED"

\* a listener takes its next notification and calls the callback of lines
\* 273-283, which calls handleEvent; lines 347-374: a payload that is no
\* unstructured object makes handleEvent return, otherwise the version is
\* recorded and the cache write is spawned
HandleEventBegin(k, g, i) ==
    /\ ~crashed
    /\ Len(listeners[k][g]) >= i
    /\ listeners[k][g][i].cur = None
    /\ listeners[k][g][i].queue # << >>
    /\ LET n == Head(listeners[k][g][i].queue)
           c == conns[k].ID
           o == NewObj(k, g, n)
           recorded == ~n.tomb /\ GetResourceVersion(o) # 0
       IN \* rvs.mu.Lock waits for the saves that hold rvs.mu.RLock
          /\ recorded => saves.writing = {}
          /\ IF recorded /\ store[c] = NilMap
             THEN \* assignment to an entry of a nil map
                  /\ crashed' = TRUE
                  /\ UNCHANGED <<listeners, store, cacheWrites, saves>>
             ELSE /\ listeners' = [listeners EXCEPT ![k][g][i].queue = Tail(@),
                                                    ![k][g][i].cur = n]
                  /\ store' = IF recorded
                              THEN setResourceVersion(store, c, g, GetResourceVersion(o))
                              ELSE store
                  /\ saves' = IF recorded THEN [saves EXCEPT !.n = @ + 1] ELSE saves
                  /\ cacheWrites' = IF recorded /\ dbCache
                                    THEN cacheWrites \cup {[cluster |-> c, gvr |-> g, obj |-> o]}
                                    ELSE cacheWrites
                  /\ UNCHANGED crashed
    /\ UNCHANGED <<clusters, conns, dbCache, dbClosed, rows, indexer, handled, nSeq,
                   ctxCancelled, aw, rc, sd, calls, ret, file>>

\* the Event of lines 376-393; conn, seq and detached are bookkeeping of
\* which notification the Event came from
MakeEvent(k, g, n) ==
    LET o == NewObj(k, g, n)
    IN [Type |-> EventType(n), ClusterID |-> conns[k].ID, GVR |-> g,
        Namespace |-> GetNamespace(o), Name |-> GetName(o),
        Object |-> IF dbCache /\ isSensitiveResource(g, o)
                   THEN redactSensitiveFields(o) ELSE o,
        OldObject |-> OldObj(k, g, n),
        conn |-> k, seq |-> n.seq,
        detached |-> n.detached /\ g \notin conns[k].Informers]

emit_Never(log, k, g, n) == log

\* lines 348-351 and 395-397: nothing is handed over for a payload that is
\* no unstructured object, otherwise the handler receives the Event
emit(log, k, g, n) == IF n.tomb THEN log ELSE Append(log, MakeEvent(k, g, n))

\* handleEvent, lines 376-397, and the return of the callback
HandleEventEmit(k, g, i) ==
    /\ ~crashed
    /\ Len(listeners[k][g]) >= i
    /\ listeners[k][g][i].cur # None
    /\ handled' = emit(handled, k, g, listeners[k][g][i].cur)
    /\ listeners' = [listeners EXCEPT ![k][g][i].cur = None]
    /\ UNCHANGED <<clusters, conns, store, dbCache, dbClosed, rows, cacheWrites, indexer, nSeq,
                   ctxCancelled, aw, rc, sd, calls, ret, persistVars>>

(* ------------------------------ cache reads --------------------------- *)
\* DatabaseCache.GetResource: the row of the identity, decoded; the encoding
\* of a tree of strings and objects to JSON and back yields the same tree
GetResource(table, c, g, namespace, name) ==
    LET hits == {r \in table : Identity(r) = <<c, GVRString(g), namespace, name>>}
    IN IF hits = {} THEN [obj |-> None, sens |-> FALSE]
       ELSE LET r == CHOOSE x \in hits : TRUE
            IN [obj |-> r.data, sens |-> r.is_sensitive]

\* what a point Get on the API server of a cluster may answer for an object
GetNotFound == [msg |-> <<"not found on server">>, obj |-> None]
GetAnswers(srv, g, name) ==
    {GetNotFound} \cup {[msg |-> << >>, obj |-> MkObject(srv, g, name, rv)] : rv \in 1..MaxVersion}

\* GetOriginalResource: what it returns for the answer ans of the API server
getOriginal(c, ans) ==
    IF clusters[c] = NoConn THEN [msg |-> clusterNotFound(c), obj |-> None] ELSE ans

\* GetOriginalResource(clusterID, gvr, namespace, name)
GetOriginalResource(c, g, name, ans) ==
    /\ ~crashed
    /\ imMuFree
    /\ calls < MaxCalls
    /\ calls' = calls + 1
    /\ LET r == getOriginal(c, ans)
       IN ret' = Return("getOriginal", c, g, name, r.msg, clusters[c] # NoConn, r.obj, FALSE)
    /\ UNCHANGED <<clusters, conns, store, dbCache, dbClosed, rows, cacheWrites, listeners,
                   indexer, handled, nSeq, ctxCancelled, aw, rc, sd, persistVars>>

\* the error of database/sql for a query on a closed handle
databaseIsClosed == <<"sql: database is closed">>

\* GetResourceWithSensitivityInfo lines 867-893: the cached row when there is
\* one, otherwise the object of the API server, redacted when the cache
\* exists and the kind is sensitive; listed tells whether the server was asked
getWithSensitivity(c, g, namespace, name, ans) ==
    LET cached == IF dbCache THEN GetResource(rows, c, g, namespace, name)
                  ELSE [obj |-> None, sens |-> FALSE]
        original == getOriginal(c, ans)
    IN IF dbCache /\ dbClosed
       THEN Return("getWithSensitivity", c, g, name, databaseIsClosed, FALSE, None, FALSE)
       ELSE IF cached.obj # None
       THEN Return("getWithSensitivity", c, g, name, << >>, FALSE, cached.obj, cached.sens)
       ELSE IF original.msg # << >>
       THEN Return("getWithSensitivity", c, g, name, original.msg, clusters[c] # NoConn,
                   None, FALSE)
       ELSE IF dbCache /\ isSensitiveResource(g, original.obj)
       THEN Return("getWithSensitivity", c, g, name, << >>, TRUE,
                   redactSensitiveFields(original.obj), TRUE)
       ELSE Return("getWithSensitivity", c, g, name, << >>, TRUE, original.obj, FALSE)

GetResourceWithSensitivityInfo(c, g, name, ans) ==
    /\ ~crashed
    /\ calls < MaxCalls
    /\ calls' = calls + 1
    /\ (GetResource(rows, c, g, "default", name).obj = None \/ ~dbCache) =>
          (imMuFree \/ (dbCache /\ dbClosed))
    /\ ret' = getWithSensitivity(c, g, "default", name, ans)
    /\ UNCHANGED <<clusters, conns, store, dbCache, dbClosed, rows, cacheWrites, listeners,
                   indexer, handled, nSeq, ctxCancelled, aw, rc, sd, persistVars>>

\* a direct call of DatabaseCache.StoreResource(clusterID, gvr, resource); the
\* call's record keeps the resource that was passed
StoreCall(c, g, o) ==
    /\ ~crashed
    /\ dbCache
    /\ calls < MaxCalls
    /\ calls' = calls + 1
    /\ rows' = IF dbClosed THEN rows ELSE StoreResource(rows, c, g, o)
    /\ ret' = Return("store", c, g, "", IF dbClosed THEN databaseIsClosed ELSE << >>,
                     FALSE, o, isSensitiveResource(g, o))
    /\ UNCHANGED <<clusters, conns, store, dbCache, dbClosed, cacheWrites, listeners,
                   indexer, handled, nSeq, ctxCancelled, aw, rc, sd, persistVars>>

(* ---------------------------- construction ---------------------------- *)
\* NewInformerManager: empty registry, store loaded from a missing file,
\* database cache opened (or nil when it could not be opened)
Init ==
    /\ clusters = [c \in ClusterIDs |-> NoConn]
    /\ conns = << >>
    /\ file = FileMissing
    /\ store = load(file)
    /\ dbCache \in BOOLEAN
    /\ dbClosed = FALSE
    /\ rows = {}
    /\ cacheWrites = {}
    /\ listeners = << >>
    /\ indexer = << >>
    /\ handled = << >>
    /\ nSeq = 0
    /\ ctxCancelled = FALSE
    /\ aw = << >>
    /\ rc = None
    /\ sd = "idle"
    /\ calls = 0
    /\ ret = Returned("newManager", "", "", "", << >>)
    /\ saves = [n |-> 0, old |-> {}, writing |-> {}]
    /\ crashed = FALSE

\* what the file at the store path may hold when a Manager is constructed
\* on it: nothing, unreadable bytes, text that is no JSON, a JSON number, the
\* file an earlier Manager saved, and files with a value of the wrong type in
\* the place of a version or of a cluster's object
SavedFile ==
    FileJSON([map |-> [c \in {"c1"} |-> [map |-> [g \in {"pods"} |-> [str |-> 1]]]]])
MistypedVersionFile ==
    FileJSON([map |-> [c \in {"c1"} |->
        [map |-> [g \in GVRs |-> IF g = "pods" THEN [str |-> 2] ELSE [num |-> 5]]]]])
MistypedClusterFile == FileJSON([map |-> [c \in {"c1"} |-> [num |-> 5]]])
FileContents ==
    {FileMissing, FileUnreadable, FileGarbage, FileJSON([num |-> 5]), SavedFile,
     MistypedVersionFile, MistypedClusterFile}

\* NewInformerManager on a store path that holds any of these files
InitPersist ==
    /\ clusters = [c \in ClusterIDs |-> NoConn]
    /\ conns = << >>
    /\ file \in FileContents
    /\ store = load(file)
    /\ dbCache = TRUE
    /\ dbClosed = FALSE
    /\ rows = {}
    /\ cacheWrites = {}
    /\ listeners = << >>
    /\ indexer = << >>
    /\ handled = << >>
    /\ nSeq = 0
    /\ ctxCancelled = FALSE
    /\ aw = << >>
    /\ rc = None
    /\ sd = "idle"
    /\ calls = 0
    /\ ret = Returned("newManager", "", "", "", << >>)
    /\ saves = [n |-> 0, old |-> {}, writing |-> {}]
    /\ crashed = FALSE

\* what load reads: the file, or, while a writer goroutine of the Manager
\* that was shut down is still pending, also the file that writer has
\* truncated and not yet written (os.WriteFile is not atomic)
Readable ==
    {file} \cup (IF saves.n > 0 THEN {FileGarbage} ELSE {})

\* the host constructs a new Manager on the same store path after Shutdown
\* has returned and the informers of the old Manager have stopped; the
\* pending writers of the old Manager still hold the old store
NewInformerManager ==
    /\ ~crashed
    /\ ctxCancelled /\ sd = "idle" /\ rc = None /\ aw = << >>
    /\ ret.op = "shutdown"
    /\ \A k \in ConnIds, g \in GVRs : conns[k].inf[g] # "running"
    /\ calls < MaxCalls
    /\ calls' = calls + 1
    /\ \E f \in Readable : store' = load(f)
    /\ saves' = [n |-> 0,
                 old |-> saves.writing \cup
                         (IF saves.n > 0 THEN saves.old \cup {Marshal(store)} ELSE saves.old),
                 writing |-> {}]
    /\ clusters' = [c \in ClusterIDs |-> NoConn]
    /\ conns' = << >>
    /\ listeners' = << >>
    /\ indexer' = << >>
    /\ handled' = << >>
    /\ ctxCancelled' = FALSE
    /\ ret' = Returned("newManager", "", "", "", << >>)
    /\ dbClosed' = FALSE
    /\ UNCHANGED <<dbCache, rows, cacheWrites, nSeq, aw, rc, sd, file, crashed>>

\* a writer goroutine left by an earlier Manager runs
OldSaveRun(f) ==
    /\ ~crashed
    /\ f \in saves.old
    /\ saves' = [saves EXCEPT !.old = @ \ {f}]
    /\ file' = f
    /\ UNCHANGED <<clusters, conns, store, dbCache, dbClosed, rows, cacheWrites, listeners,
                   indexer, handled, nSeq, ctxCancelled, aw, rc, sd, calls, ret, crashed>>

(* --------------------------- specifications --------------------------- *)
\* the informer core on one cluster id, which may be added again while it
\* is registered: AddCluster with a good kubeconfig, one AddResourceWatcher at
\* a time, the informers reporting on one object
Next ==
    \/ \E srv \in Servers : AddCluster("c1", "inline", srv)
    \/ \E g \in GVRs : aw = << >> /\ AddResourceWatcherLookup("c1", g)
    \/ \E ans \in {ListOK, ListBare401} : AddResourceWatcherBody(1, ans)
    \/ \E g \in GVRs : RemoveResourceWatcher("c1", g)
    \/ \E k \in ConnIds : FactoryStart(k)
    \/ \E k \in ConnIds, g \in GVRs : InformerStop(k, g)
    \/ RemoveClusterBegin("c1")
    \/ RemoveClusterFinish
    \/ ShutdownCancel
    \/ ShutdownLock
    \/ ShutdownReturn
    \/ \E k \in ConnIds, g \in GVRs, rv \in 1..MaxVersion, del \in BOOLEAN :
          InformerNotify(k, g, "a", rv, del, FALSE)
    \/ \E t \in cacheWrites : CacheWrite(t)
    \/ SaveRun
    \/ \E k \in ConnIds, g \in GVRs, i \in 1..MaxListeners : HandleEventBegin(k, g, i)
    \/ \E k \in ConnIds, g \in GVRs, i \in 1..MaxListeners : HandleEventEmit(k, g, i)

Spec == Init /\ [][Next]_vars

\* the host's calls and the factories alone: no informer notification
NextLifecycle ==
    \/ \E id \in ClusterIDs, kc \in Kubeconfigs, srv \in Servers : AddCluster(id, kc, srv)
    \/ \E c \in ClusterIDs, g \in GVRs : AddResourceWatcherLookup(c, g)
    \/ \E i \in 1..MaxPending, ans \in ListAnswers : AddResourceWatcherBody(i, ans)
    \/ \E c \in ClusterIDs, g \in GVRs : RemoveResourceWatcher(c, g)
    \/ \E c \in ClusterIDs, g \in GVRs :
          \E ans \in GetAnswers("s1", g, "a") : GetOriginalResource(c, g, "a", ans)
    \/ \E k \in ConnIds : FactoryStart(k)
    \/ \E k \in ConnIds, g \in GVRs : InformerStop(k, g)
    \/ \E c \in ClusterIDs : RemoveClusterBegin(c)
    \/ RemoveClusterFinish
    \/ ShutdownCancel
    \/ ShutdownLock
    \/ ShutdownReturn

SpecLifecycle == Init /\ [][NextLifecycle]_vars

\* one cluster with one watcher that passes the pre-flight, and everything
\* its informer, handleEvent and the cache writers do
NextEvents ==
    \/ \E srv \in Servers : conns = << >> /\ AddCluster("c1", "inline", srv)
    \/ \E g \in GVRs : /\ Len(conns) = 1
                       /\ conns[1].inf[g] = "none"
                       /\ aw = << >>
                       /\ AddResourceWatcherLookup("c1", g)
    \/ AddResourceWatcherBody(1, ListOK)
    \/ \E k \in ConnIds : FactoryStart(k)
    \/ \E k \in ConnIds, g \in GVRs, name \in Names, rv \in 1..MaxVersion,
          del \in BOOLEAN, tomb \in BOOLEAN, oldMistyped \in BOOLEAN :
             InformerNotifyWith(k, g, name, rv, del, tomb, oldMistyped)
    \/ \E t \in cacheWrites : CacheWrite(t)
    \/ SaveRun
    \/ \E k \in ConnIds, g \in GVRs, i \in 1..MaxListeners : HandleEventBegin(k, g, i)
    \/ \E k \in ConnIds, g \in GVRs, i \in 1..MaxListeners : HandleEventEmit(k, g, i)

SpecEvents == Init /\ [][NextEvents]_vars

\* a Manager on a store path that holds any file: one cluster with a pods
\* watcher, its events, Shutdown, and a new Manager on the same path
NextPersist ==
    \/ \E srv \in Servers : AddCluster("c1", "inline", srv)
    \/ aw = << >> /\ AddResourceWatcherLookup("c1", "pods")
    \/ AddResourceWatcherBody(1, ListOK)
    \/ \E k \in ConnIds : FactoryStart(k)
    \/ \E k \in ConnIds, g \in GVRs : InformerStop(k, g)
    \/ ShutdownCancel
    \/ ShutdownLock
    \/ ShutdownReturn
    \/ NewInformerManager
    \/ \E k \in ConnIds, rv \in 1..MaxVersion : InformerNotify(k, "pods", "a", rv, FALSE, FALSE)
    \/ \E t \in cacheWrites : CacheWrite(t)
    \/ SaveRun
    \/ \E f \in saves.old : OldSaveRun(f)
    \/ \E k \in ConnIds, g \in GVRs, i \in 1..MaxListeners : HandleEventBegin(k, g, i)
    \/ \E k \in ConnIds, g \in GVRs, i \in 1..MaxListeners : HandleEventEmit(k, g, i)

SpecPersist == InitPersist /\ [][NextPersist]_vars

\* one cluster with a pods watcher and its events, RemoveCluster and Shutdown
NextShutdown ==
    \/ \E srv \in Servers : AddCluster("c1", "inline", srv)
    \/ aw = << >> /\ AddResourceWatcherLookup("c1", "pods")
    \/ AddResourceWatcherBody(1, ListOK)
    \/ \E k \in ConnIds : FactoryStart(k)
    \/ \E k \in ConnIds, g \in GVRs : InformerStop(k, g)
    \/ RemoveClusterBegin("c1")
    \/ RemoveClusterFinish
    \/ ShutdownCancel
    \/ ShutdownLock
    \/ ShutdownReturn
    \/ CleanupTestData
    \/ \E k \in ConnIds, rv \in 1..MaxVersion : InformerNotify(k, "pods", "a", rv, FALSE, FALSE)
    \/ \E t \in cacheWrites : CacheWrite(t)
    \/ SaveRun
    \/ \E k \in ConnIds, g \in GVRs, i \in 1..MaxListeners : HandleEventBegin(k, g, i)
    \/ \E k \in ConnIds, g \in GVRs, i \in 1..MaxListeners : HandleEventEmit(k, g, i)

\* the goroutines of the Manager and of the informers are scheduled: a
\* callback that runs returns, an informer whose stop channel is closed
\* returns, and a call that waits for a lock or for a factory goes on once it can
FairShutdown ==
    /\ WF_vars(ShutdownLock)
    /\ WF_vars(ShutdownReturn)
    /\ WF_vars(RemoveClusterFinish)
    /\ WF_vars(\E k \in ConnIds, g \in GVRs : InformerStop(k, g))
    /\ WF_vars(\E k \in ConnIds, g \in GVRs, i \in 1..MaxListeners : HandleEventEmit(k, g, i))

SpecShutdown == Init /\ [][NextShutdown]_vars /\ FairShutdown

\* an object that kubectl apply has annotated
WithLastApplied(o) ==
    [o EXCEPT !.map.metadata.map =
        [k \in DOMAIN @ \cup {"annotations"} |->
            IF k = "annotations"
            THEN [map |-> [x \in {LastApplied} |-> [str |-> <<"applied">>]]]
            ELSE @[k]]]

\* an object whose metadata.uid is the empty string
WithoutUID(o) == [o EXCEPT !.map.metadata.map.uid = [str |-> << >>]]

\* the resources the host passes to DatabaseCache.StoreResource
StoreInputs(g) ==
    LET a == MkObject("s1", g, "a", 1)
    IN {a, WithLastApplied(a), WithoutUID(a), WithoutUID(MkObject("s1", g, "b", 1))}

\* the cache and the reads: clusters, direct stores, and the two accessors
NextCache ==
    \/ \E c \in ClusterIDs, srv \in Servers : AddCluster(c, "inline", srv)
    \/ \E c \in ClusterIDs, g \in GVRs : \E o \in StoreInputs(g) : StoreCall(c, g, o)
    \/ CleanupTestData
    \/ \E c \in ClusterIDs, g \in GVRs, name \in Names :
          \E ans \in GetAnswers("s1", g, name) : GetOriginalResource(c, g, name, ans)
    \/ \E c \in ClusterIDs, g \in GVRs, name \in Names :
          \E ans \in GetAnswers("s1", g, name) : GetResourceWithSensitivityInfo(c, g, name, ans)

SpecCache == Init /\ [][NextCache]_vars

\* redactSensitiveFields of a cache whose configuration lists the one path p
\* for the kind of o; the call's record keeps the input, the path and the twin
RedactWith(o, p) ==
    /\ ~crashed
    /\ dbCache
    /\ calls < MaxCalls
    /\ calls' = calls + 1
    /\ ret' = Return("redact", "", "", "", << >>, FALSE,
                     [input |-> o, path |-> p, twin |-> redactPolicyPath(o, p)], TRUE)
    /\ UNCHANGED <<clusters, conns, store, dbCache, dbClosed, rows, cacheWrites, listeners,
                   indexer, handled, nSeq, ctxCancelled, aw, rc, sd, persistVars>>

\* resources of a custom kind: spec.containers is an array of zero to two
\* objects, an object, or absent; spec.token is present or absent
Containers ==
    {[map |-> [name |-> [str |-> "app"], env |-> [str |-> "PASSWORD=x"]]],
     [map |-> [name |-> [str |-> "sidecar"]]]}
ContainerArrays ==
    {<< >>} \cup {<<e>> : e \in Containers} \cup {<<e1, e2>> : e1 \in Containers, e2 \in Containers}
RedactSpecs ==
    {[map |-> [containers |-> [arr |-> a]]] : a \in ContainerArrays}
    \cup {[map |-> [containers |-> [arr |-> a], token |-> [str |-> "t0k3n"]]] : a \in ContainerArrays}
    \cup {EmptyMap, [map |-> [containers |-> [map |-> [name |-> [str |-> "app"]]]]]}
RedactInputs ==
    {[map |-> [kind |-> [str |-> "Widget"], spec |-> sp]] : sp \in RedactSpecs}
    \cup {[map |-> [kind |-> [str |-> "Widget"]]]}
RedactPathsTried ==
    {WildPath(<<"spec", "containers">>, <<"env">>), WildPath(<<"spec", "containers">>, << >>),
     PlainPath(<<"spec", "token">>), PlainPath(<<"kind">>)}

NextRedact == \E o \in RedactInputs, p \in RedactPathsTried : RedactWith(o, p)

SpecRedact == Init /\ [][NextRedact]_vars

\* fmt.Sprintf("cluster_%d", n): the ids the service can generate here
ClusterIDFor(n) == IF n = 1 THEN "c1" ELSE "c2"

\* InformerManager.GetClusters: the registered ids
GetClusters == {c \in ClusterIDs : clusters[c] # NoConn}

\* ClusterService.AddCluster: the id is made from the number of registered
\* clusters plus one and passed to the Manager
ServiceAddCluster(kc, srv) ==
    /\ Cardinality(GetClusters) + 1 <= Cardinality(ClusterIDs)
    /\ AddCluster(ClusterIDFor(Cardinality(GetClusters) + 1), kc, srv)

\* ClusterService.ToggleClusterPin, lines 153-157: the connection is taken
\* from the map GetClusters returns (built under im.mu.RLock); pins holds the
\* calls that have the pointer, each with what it has read of the flag
ToggleClusterPinLookup(c) ==
    /\ ~crashed
    /\ imMuFree
    /\ calls < MaxCalls
    /\ calls' = calls + 1
    /\ IF clusters[c] = NoConn
       THEN /\ ret' = Returned("togglePin", c, "", "", clusterNotFound(c))
            /\ UNCHANGED conns
       ELSE LET k == clusters[c]
            IN /\ Len(conns[k].pins) < MaxPending
               /\ conns' = SetConn(k, [conns[k] EXCEPT !.pins = Append(@, "looked")])
               /\ UNCHANGED ret
    /\ UNCHANGED <<clusters, store, dbCache, dbClosed, rows, cacheWrites, listeners, indexer,
                   handled, nSeq, ctxCancelled, aw, rc, sd, persistVars>>

\* line 159, right-hand side: cluster.IsPinned is read, no lock held
ToggleClusterPinRead(k, i) ==
    /\ ~crashed
    /\ i \in 1..Len(conns[k].pins)
    /\ conns[k].pins[i] = "looked"
    /\ conns' = SetConn(k, [conns[k] EXCEPT
                               !.pins[i] = IF conns[k].IsPinned THEN "sawPinned"
                                           ELSE "sawUnpinned"])
    /\ UNCHANGED <<clusters, store, dbCache, dbClosed, rows, cacheWrites, listeners, indexer,
                   handled, nSeq, ctxCancelled, aw, rc, sd, calls, ret, persistVars>>

\* line 159: !cluster.IsPinned
negate(b) == ~b

\* line 159, assignment, and lines 161-173: the negation of what was read is
\* written, no lock held; the update is emitted and nil returned
ToggleClusterPinWrite(k, i) ==
    /\ ~crashed
    /\ i \in 1..Len(conns[k].pins)
    /\ conns[k].pins[i] # "looked"
    /\ conns' = SetConn(k, [conns[k] EXCEPT
                               !.IsPinned = negate(conns[k].pins[i] = "sawPinned"),
                               !.pins = RemoveAt(@, i)])
    /\ ret' = Returned("togglePin", conns[k].ID, "", "", << >>)
    /\ UNCHANGED <<clusters, store, dbCache, dbClosed, rows, cacheWrites, listeners, indexer,
                   handled, nSeq, ctxCancelled, aw, rc, sd, calls, persistVars>>

\* the host works through ClusterService: clusters are added with generated
\* ids and removed, watchers are added, clusters are pinned and unpinned
NextService ==
    \/ \E kc \in {"inline", "garbage"}, srv \in Servers : ServiceAddCluster(kc, srv)
    \/ \E c \in ClusterIDs : RemoveClusterBegin(c)
    \/ RemoveClusterFinish
    \/ \E c \in ClusterIDs, g \in GVRs : aw = << >> /\ AddResourceWatcherLookup(c, g)
    \/ \E ans \in {ListOK, ListForbidden} : AddResourceWatcherBody(1, ans)
    \/ \E k \in ConnIds : FactoryStart(k)
    \/ \E c \in ClusterIDs : ToggleClusterPinLookup(c)
    \/ \E k \in ConnIds, i \in 1..MaxPending : ToggleClusterPinRead(k, i)
    \/ \E k \in ConnIds, i \in 1..MaxPending : ToggleClusterPinWrite(k, i)

SpecService == Init /\ [][NextService]_vars

\* one cluster with a pods watcher, its events and the save goroutines they
\* start, RemoveCluster, and the Shutdown that lets the informers stop
NextSaves ==
    \/ \E srv \in Servers : conns = << >> /\ AddCluster("c1", "inline", srv)
    \/ aw = << >> /\ AddResourceWatcherLookup("c1", "pods")
    \/ AddResourceWatcherBody(1, ListOK)
    \/ \E k \in ConnIds : FactoryStart(k)
    \/ \E k \in ConnIds, g \in GVRs : InformerStop(k, g)
    \/ RemoveClusterBegin("c1")
    \/ RemoveClusterFinish
    \/ ShutdownCancel
    \/ ShutdownLock
    \/ ShutdownReturn
    \/ \E k \in ConnIds, rv \in 1..MaxVersion : InformerNotify(k, "pods", "a", rv, FALSE, FALSE)
    \/ \E t \in cacheWrites : CacheWrite(t)
    \/ SaveMarshal
    \/ \E f \in saves.writing : SaveWrite(f)
    \/ SaveMarshalDuringDelete
    \/ \E k \in ConnIds, g \in GVRs, i \in 1..MaxListeners : HandleEventBegin(k, g, i)
    \/ \E k \in ConnIds, g \in GVRs, i \in 1..MaxListeners : HandleEventEmit(k, g, i)

SpecSaves == Init /\ [][NextSaves]_vars

\* clusters with watchers whose pre-flight passes or fails, the sync waits
\* of the watchers, RemoveCluster and Shutdown
NextSync ==
    \/ \E c \in ClusterIDs, srv \in Servers : AddCluster(c, "inline", srv)
    \/ \E c \in ClusterIDs, g \in GVRs : aw = << >> /\ AddResourceWatcherLookup(c, g)
    \/ \E ans \in {ListOK, ListForbidden} : AddResourceWatcherBody(1, ans)
    \/ \E k \in ConnIds : FactoryStart(k)
    \/ \E k \in ConnIds, g \in GVRs : SyncWaitSucceeds(k, g)
    \/ \E k \in ConnIds, g \in GVRs : SyncWaitGivesUp(k, g)
    \/ \E k \in ConnIds, g \in GVRs : SyncMarkError(k, g)
    \/ \E k \in ConnIds, g \in GVRs : InformerStop(k, g)
    \/ \E c \in ClusterIDs : RemoveClusterBegin(c)
    \/ RemoveClusterFinish
    \/ ShutdownCancel
    \/ ShutdownLock
    \/ ShutdownReturn

\* goroutines are scheduled: one that can take cluster.mu takes it, a stopped
\* informer returns, a call that waits goes on once it can; the host is not
\* obliged to call anything
FairSync ==
    /\ WF_vars(\E k \in ConnIds, g \in GVRs : SyncMarkError(k, g))
    /\ WF_vars(\E k \in ConnIds, g \in GVRs : InformerStop(k, g))
    /\ WF_vars(RemoveClusterFinish)
    /\ WF_vars(ShutdownLock)
    /\ WF_vars(ShutdownReturn)

SpecSync == Init /\ [][NextSync]_vars /\ FairSync

\* what a call leaves of the resource it was given: input the resource as
\* passed, after the resource when the call (and the cache write it spawned)
\* is done, out what the call produced from it
Effect(input, after, out) == [input |-> input, after |-> after, out |-> out]

\* what the resource holds after StoreResource: the annotation delete of
\* lines 555-558, then the redaction of line 568 when the kind is sensitive
resourceAfterStore(g, o) ==
    LET r == afterAnnotationDelete(o)
    IN IF isSensitiveResource(g, r) THEN resourceAfterRedact(r) ELSE r

\* DatabaseCache.redactSensitiveFields(resource)
RedactCall(o) ==
    /\ ~crashed
    /\ dbCache
    /\ calls < MaxCalls
    /\ calls' = calls + 1
    /\ ret' = Return("redactSensitive", "", "", "", << >>, FALSE,
                     Effect(o, resourceAfterRedact(o), redactSensitiveFields(o)),
                     <<GroupVersionKind(o).Group, GroupVersionKind(o).Kind>> \in SensitiveKeys)
    /\ UNCHANGED <<clusters, conns, store, dbCache, dbClosed, rows, cacheWrites, listeners,
                   indexer, handled, nSeq, ctxCancelled, aw, rc, sd, persistVars>>

\* DatabaseCache.StoreResource(clusterID, gvr, resource), with what it
\* leaves of the resource
StoreResourceCall(c, g, o) ==
    /\ ~crashed
    /\ dbCache /\ ~dbClosed
    /\ calls < MaxCalls
    /\ calls' = calls + 1
    /\ rows' = StoreResource(rows, c, g, o)
    /\ ret' = Return("storeResource", c, g, "", << >>, FALSE,
                     Effect(o, resourceAfterStore(g, o),
                            GetResource(rows', c, g, GetNamespace(o), GetName(o)).obj),
                     isSensitiveResource(g, o))
    /\ UNCHANGED <<clusters, conns, store, dbCache, dbClosed, cacheWrites, listeners,
                   indexer, handled, nSeq, ctxCancelled, aw, rc, sd, persistVars>>

\* handleEvent(eventType, clusterID, gvr, obj, nil) for an object of the
\* informer, lines 361-397, with the cache write it spawns: out is the Object
\* of the Event, which for a kind that is not sensitive is the informer's
\* object itself (line 381)
HandleEventCall(c, g, o) ==
    /\ ~crashed
    /\ dbCache /\ ~dbClosed
    /\ calls < MaxCalls
    /\ calls' = calls + 1
    /\ store[c] # NilMap
    /\ store' = setResourceVersion(store, c, g, GetResourceVersion(o))
    /\ saves' = [saves EXCEPT !.n = @ + 1]
    /\ rows' = StoreResource(rows, c, g, o)
    /\ LET after == resourceAfterStore(g, IF isSensitiveResource(g, o)
                                          THEN resourceAfterRedact(o) ELSE o)
       IN ret' = Return("handleEvent", c, g, "", << >>, FALSE,
                        Effect(o, after, IF isSensitiveResource(g, o)
                                         THEN redactSensitiveFields(o) ELSE after),
                        isSensitiveResource(g, o))
    /\ UNCHANGED <<clusters, conns, dbCache, dbClosed, cacheWrites, listeners,
                   indexer, handled, nSeq, ctxCancelled, aw, rc, sd, file, crashed>>

\* a custom kind that the policy does not name
Widget == [map |-> [apiVersion |-> [str |-> <<"example.io", "v1">>],
                    kind |-> [str |-> "Widget"],
                    metadata |-> MkMetadata("s1", "pods", "w", 1),
                    data |-> [map |-> [password |-> [str |-> <<"c2VjcmV0", 1>>]]]]]

\* the redactor, the cache write and handleEvent applied to Secrets, Pods and
\* a custom kind, with and without the last-applied annotation
NextEffect ==
    \/ \E g \in GVRs : \E o \in StoreInputs(g) \cup {Widget, WithLastApplied(Widget)} :
          RedactCall(o)
    \/ \E c \in ClusterIDs, g \in GVRs : \E o \in StoreInputs(g) : StoreResourceCall(c, g, o)
    \/ \E c \in ClusterIDs, g \in GVRs : \E o \in StoreInputs(g) : HandleEventCall(c, g, o)

SpecEffect == Init /\ [][NextEffect]_vars

(* =============================== claims =============================== *)
\* the policy key of an object, from its own group and kind
KeyOf(o) == <<GroupVersionKind(o).Group, GroupVersionKind(o).Kind>>
IsPolicyObject(o) == KeyOf(o) \in SensitiveKeys
\* every policy path of the object's kind holds the literal "<redacted>"
AllPathsRedacted(o) ==
    \A j \in 1..Len(DefaultSensitiveConfig(KeyOf(o))) :
        ValueAt(o, DefaultSensitiveConfig(KeyOf(o))[j]) = REDACTED
EventRV(e) == GetResourceVersion(e.Object)
EventsOf(c, g) == {i \in 1..Len(handled) : handled[i].ClusterID = c /\ handled[i].GVR = g}
NoCallbackRunning ==
    \A k \in ConnIds, g \in GVRs :
        \A i \in 1..Len(listeners[k][g]) : listeners[k][g][i].cur = None
EverRemoved(c) == \E k \in ConnIds : conns[k].ID = c /\ conns[k].removed

\* C1: with the cache available, every Event handed to the event handler for
\* an object of a policy kind carries only redacted objects: the current
\* object and, for MODIFIED, the prior object hold "<redacted>" at every
\* policy path.
C1_EventsCarryNoSecret ==
    dbCache =>
        \A i \in 1..Len(handled) :
            IsPolicyObject(handled[i].Object) =>
                /\ AllPathsRedacted(handled[i].Object)
                /\ handled[i].OldObject # None => AllPathsRedacted(handled[i].OldObject)

\* C2: every cache row of an object of a policy kind has is_sensitive set
\* and a redacted data blob, and every row with is_sensitive set is such a row.
C2_RowsAreRedacted ==
    \A r \in rows :
        /\ IsPolicyObject(r.data) => r.is_sensitive /\ AllPathsRedacted(r.data)
        /\ r.is_sensitive => IsPolicyObject(r.data) /\ AllPathsRedacted(r.data)

C2_Witness ==
    \E r \in rows : r.is_sensitive /\ r.name = "a" /\ r.resource_version = 2

\* C3: for a cluster that was never removed, once the callbacks have
\* returned, the version store holds for (cluster, GVR) the greatest resource
\* version of the events delivered for it.
C3_StoreHoldsGreatestVersion ==
    NoCallbackRunning =>
        \A c \in ClusterIDs, g \in GVRs :
            (~EverRemoved(c) /\ EventsOf(c, g) # {}) =>
                /\ store[c] # NoEntry
                /\ \A i \in EventsOf(c, g) : store[c][g] >= EventRV(handled[i])

\* C4: on a registered cluster with no removal in progress, the active
\* watchers are exactly the GVRs whose last watcher operation was an
\* addWatcher and whose pre-flight passed.
C4_WatchersMatchHistory ==
    \A c \in ClusterIDs :
        (clusters[c] # NoConn /\ clusterMuFree(clusters[c])) =>
            conns[clusters[c]].Informers = conns[clusters[c]].lastAddPassed

C4_Witness ==
    \E k \in ConnIds :
        /\ clusters[conns[k].ID] = k
        /\ conns[k].Informers = {"secrets"}
        /\ conns[k].LastError = preflightLastError("pods", ListUnauthorized.msg)
        /\ calls = 4

\* C5: no Event reaches the handler for a notification that the informer
\* produced after removeWatcher returned, while the watcher is still removed.
C5_RemovedWatcherIsSilent ==
    \A i \in 1..Len(handled) : ~handled[i].detached

\* C6: after removeCluster(c) has returned and until c is added again, the
\* version store holds no entry under c and the registry does not hold c.
C6_RemovedClusterLeavesNoVersion ==
    \A c \in ClusterIDs :
        (EverRemoved(c) /\ clusters[c] = NoConn) => store[c] = NoEntry

\* C7: removeCluster returns without shutdown having to be called: whenever
\* it waits in the factory shutdown and no shutdown was called, the wait is over.
C7_RemoveClusterNeedsNoShutdown ==
    (rc # None /\ ~ctxCancelled) => FactoryShutdownReturns(rc.conn)

\* C8: the Events of one identity that come from one informer reach the
\* handler in the order in which the informer produced their notifications.
C8_EventsInInformerOrder ==
    \A i, j \in 1..Len(handled) :
        (/\ i < j
         /\ handled[i].conn = handled[j].conn
         /\ handled[i].GVR = handled[j].GVR
         /\ handled[i].Namespace = handled[j].Namespace
         /\ handled[i].Name = handled[j].Name) => handled[i].seq <= handled[j].seq

Quiescent ==
    /\ cacheWrites = {}
    /\ NoCallbackRunning
    /\ \A k \in ConnIds, g \in GVRs :
          \A i \in 1..Len(listeners[k][g]) : listeners[k][g][i].queue = << >>

\* C9: once the events have stopped and every cache write has completed, the
\* cache row of an identity holds the object of the last event emitted for it.
C9_CacheHoldsLastEvent ==
    (dbCache /\ Quiescent) =>
        \A i \in 1..Len(handled) :
            (\A j \in (i + 1)..Len(handled) :
                ~(/\ handled[j].ClusterID = handled[i].ClusterID
                  /\ handled[j].GVR = handled[i].GVR
                  /\ handled[j].Name = handled[i].Name)) =>
              \E r \in rows :
                /\ Identity(r) = <<handled[i].ClusterID, GVRString(handled[i].GVR),
                                   handled[i].Namespace, handled[i].Name>>
                /\ r.resource_version = EventRV(handled[i])

\* the Event a returning callback has to have handed over
Delivered(k, g, n) ==
    /\ Len(handled') = Len(handled) + 1
    /\ SubSeq(handled', 1, Len(handled)) = handled
    /\ LET e == handled'[Len(handled')]
       IN /\ e.Type = (IF n.type = "add" THEN "ADDED"
                       ELSE IF n.type = "update" THEN "MODIFIED" ELSE "DELETED")
          /\ e.ClusterID = conns[k].ID
          /\ e.GVR = g
          /\ e.Namespace = "default"
          /\ e.Name = n.name
          /\ GetName(e.Object) = n.name
          /\ e.OldObject # None => e.Type = "MODIFIED"

CallbackReturns(k, g, i) ==
    /\ Len(listeners[k][g]) >= i
    /\ listeners[k][g][i].cur # None
    /\ listeners'[k][g][i].cur = None

\* C10: every informer callback of a watcher hands the handler, before it
\* returns, one Event of the callback's type that identifies the object; only
\* MODIFIED events carry a prior object.
C10_EveryCallbackDelivers ==
    [][\A k \in ConnIds, g \in GVRs, i \in 1..MaxListeners :
          CallbackReturns(k, g, i) => Delivered(k, g, listeners[k][g][i].cur)]_vars

\* the step in which AddResourceWatcher runs its body for the i-th waiting call
BodyStep(i) ==
    /\ i \in 1..Len(aw)
    /\ Len(aw') = Len(aw) - 1
    /\ aw' = RemoveAt(aw, i)
\* a step in which a call of the host starts and returns
Immediate(op) ==
    /\ calls' = calls + 1
    /\ aw' = aw /\ rc' = rc /\ sd' = sd
    /\ ret'.op = op
\* the fields of a connection the program holds
View(cn) == [ID |-> cn.ID, Status |-> cn.Status, LastError |-> cn.LastError,
             Informers |-> cn.Informers]
ViewsUnchanged ==
    /\ Len(conns') = Len(conns)
    /\ \A k \in ConnIds : View(conns'[k]) = View(conns[k])
ListAnswerNamed(n) == CHOOSE a \in ListAnswers : a.name = n

\* C11: an addWatcher whose pre-flight List fails returns an error, leaves the
\* GVR unregistered and sets the cluster's status to "error" with a lastError;
\* when the failure is a 401 the returned message contains "unauthorized"; an
\* addWatcher whose pre-flight passes registers its GVR whatever failed before.
C11_PreflightFailureReported ==
    [][\A i \in 1..MaxPending :
          (BodyStep(i) /\ ret'.listed) =>
              LET k == aw[i].conn
                  g == aw[i].gvr
              IN IF ret'.in = "ok"
                 THEN ret'.ok /\ g \in conns'[k].Informers
                 ELSE /\ ~ret'.ok
                      /\ g \notin conns'[k].Informers
                      /\ conns'[k].Status = "error"
                      /\ conns'[k].LastError # << >>
                      /\ ListAnswerNamed(ret'.in).code = 401
                            => Contains(ret'.msg, "unauthorized")]_vars

C15_FailedAddClusterChangesNothing ==
    [][Immediate("addCluster") =>
          IF ret'.in \in {"garbage", "noclient"}
          THEN /\ ~ret'.ok
               /\ clusters' = clusters /\ conns' = conns /\ store' = store
          ELSE ret'.ok /\ clusters'[ret'.c] = Len(conns')]_vars

C15_Witness ==
    /\ ret.op = "addCluster" /\ ~ret.ok /\ ret.in = "garbage"
    /\ \E c \in ClusterIDs : clusters[c] # NoConn /\ conns[clusters[c]].Informers # {}

\* C16: removeCluster, addWatcher, removeWatcher and getOriginal on a cluster
\* id that is not registered, and removeWatcher for a GVR without a watcher,
\* return a "not found" error and leave the registry, every connection's
\* watchers, status and lastError, and the version store as they were.
C16_NotFoundChangesNothing ==
    [][\A op \in {"removeCluster", "addWatcher", "removeWatcher", "getOriginal"} :
          (/\ Immediate(op)
           /\ IF clusters[ret'.c] = NoConn THEN TRUE
              ELSE op = "removeWatcher" /\ ret'.g \notin conns[clusters[ret'.c]].Informers)
          => /\ ~ret'.ok
             /\ Contains(ret'.msg, "not found")
             /\ clusters' = clusters /\ ViewsUnchanged /\ store' = store]_vars

C16_Witness ==
    /\ ret.op = "removeWatcher" /\ Contains(ret.msg, "not found")
    /\ clusters[ret.c] # NoConn
    /\ conns[clusters[ret.c]].Informers # {}

\* versionStore.get for every (cluster, GVR)
Versions(data) == [c \in ClusterIDs |-> [g \in GVRs |-> getResourceVersion(data, c, g)]]

\* C13: a Manager constructed on the store path after Shutdown has returned
\* reads back, for every (cluster, GVR), the version the old Manager held, and
\* adding the cluster again does not reset it.
C13_VersionsSurviveRestart ==
    [][/\ Immediate("newManager") => Versions(store') = Versions(store)
       /\ Immediate("addCluster") => Versions(store') = Versions(store)]_vars

\* the file does not hold the mapping cluster -> GVR -> version
WellTyped(v) ==
    /\ IsMap(v)
    /\ \A c \in DOMAIN v.map :
          /\ IsMap(v.map[c])
          /\ \A g \in DOMAIN v.map[c].map : IsStr(v.map[c].map[g])
FailsToParse(f) == f.kind # "json" \/ ~WellTyped(f.val)

\* C14: a Manager constructed on a missing, unreadable or unparseable file
\* starts with an empty store, and addCluster and the events handled
\* afterwards succeed as they do with an empty store: the process does not
\* panic.
C14_BadFileGivesEmptyStore ==
    /\ ~crashed
    /\ (calls = 0 /\ FailsToParse(file)) => store = EmptyStore

\* Shutdown returns while the call before it that returned was a Shutdown too
SecondShutdownReturns == sd = "wait" /\ sd' = "idle" /\ ret.op = "shutdown"

\* C17: a Shutdown that has started returns; the Manager's context is
\* cancelled before Shutdown tells a factory to shut down; a second Shutdown
\* returns too and leaves the registry, the Version Store and its file as
\* they are.
C17_ShutdownReturnsAndIsIdempotent ==
    /\ (sd # "idle") ~> (sd = "idle")
    /\ [](sd = "wait" => ctxCancelled)
    /\ [][SecondShutdownReturns =>
            clusters' = clusters /\ store' = store /\ file' = file]_vars

\* C18: the cache holds at most one row per identity, and a step that writes
\* the cache leaves every row in place or replaces it by a row of the same
\* identity.
C18_IdentityIsTheKey ==
    /\ [](\A r1, r2 \in rows : Identity(r1) = Identity(r2) => r1 = r2)
    /\ [][~dbClosed' => \A r \in rows : \E r2 \in rows' : Identity(r2) = Identity(r)]_vars

\* o with the last-applied-configuration annotation removed
WithoutLastApplied(o) ==
    IF HasKey(o.map.metadata, "annotations")
    THEN [o EXCEPT !.map.metadata.map.annotations.map =
            [k \in (DOMAIN @) \ {LastApplied} |-> @[k]]]
    ELSE o
\* what the cache is to return for a stored o
Expected(g, o) ==
    IF IsPolicyObject(o) THEN RedactPaths(WithoutLastApplied(o), DefaultSensitiveConfig(KeyOf(o)))
    ELSE WithoutLastApplied(o)

\* C19: right after store(c, g, o), get(c, g, o.namespace, o.name) returns o
\* without the last-applied-configuration annotation, redacted when its kind
\* is sensitive, with the matching is_sensitive flag; no row's data holds the
\* annotation.
C19_CacheRoundTrip ==
    /\ (ret.op = "store" /\ ret.ok) =>
          LET got == GetResource(rows, ret.c, ret.g, GetNamespace(ret.obj), GetName(ret.obj))
          IN /\ got.obj = Expected(ret.g, ret.obj)
             /\ got.sens = IsPolicyObject(ret.obj)
    /\ \A r \in rows : LastApplied \notin DOMAIN GetAnnotations(r.data)

\* C20: an object of a sensitive kind that getWithSensitivity returns has
\* every policy path redacted and is flagged sensitive, and a cache hit is
\* answered without the API server.
C20_NeverUnredacted ==
    ret.op = "getWithSensitivity" /\ ret.obj # None =>
        /\ IsPolicyObject(ret.obj) => AllPathsRedacted(ret.obj) /\ ret.sens
        /\ (dbCache /\ GetResource(rows, ret.c, ret.g, "default", ret.in).obj # None) => ~ret.listed

\* C21: for a path with [*] whose prefix names an array of the input, every
\* element of that array that is an object is redacted in the twin: at the
\* suffix when there is one, in every field otherwise.
C21_WildcardRedactsEveryElement ==
    (ret.op = "redact" /\ ret.obj.path.wild
        /\ IsArr(ValueAt(ret.obj.input, ret.obj.path.prefix))) =>
        LET p == ret.obj.path
            before == ValueAt(ret.obj.input, p.prefix).arr
            after == ValueAt(ret.obj.twin, p.prefix)
        IN /\ IsArr(after)
           /\ Len(after.arr) = Len(before)
           /\ \A i \in 1..Len(before) :
                IF p.suffix = << >>
                THEN \A k \in DOMAIN before[i].map : after.arr[i].map[k] = REDACTED
                ELSE ValueAt(after.arr[i], p.suffix) = REDACTED

\* C27: a plain dotted path that exists in the input holds "<redacted>" in
\* the twin; a path with a missing segment leaves the twin equal to the input.
C27_PlainPathOnlyWhenPresent ==
    (ret.op = "redact" /\ ~ret.obj.path.wild) =>
        LET p == ret.obj.path.prefix
        IN IF ValueAt(ret.obj.input, p) # None
           THEN ret.obj.twin = SetAt(ret.obj.input, p, REDACTED)
           ELSE ret.obj.twin = ret.obj.input

\* C22: the id a successful ClusterService.AddCluster returns is not the id
\* of a registered cluster nor the id of any connection made before, and the
\* add makes the registry one cluster larger.
C22_ClusterIDsAreFresh ==
    [][(Immediate("addCluster") /\ ret'.ok) =>
          /\ ret'.c \notin GetClusters
          /\ \A k \in ConnIds : conns[k].ID # ret'.c
          /\ Cardinality(GetClusters') = Cardinality(GetClusters) + 1]_vars

\* no save goroutine is pending or writing, and no RemoveCluster or Shutdown is
\* on its way to its own save
SavesCompleted == saves.n = 0 /\ saves.writing = {} /\ rc = None /\ sd = "idle"

\* C23: once every spawned save has completed, the file read back gives the
\* version the store holds for every (cluster, GVR), it has no entry for a
\* cluster the store has no entry for.
C23_FileEqualsStoreAfterSaves ==
    (SavesCompleted /\ file # FileMissing) =>
        /\ Versions(load(file)) = Versions(store)
        /\ \A c \in ClusterIDs : store[c] = NoEntry => load(file)[c] = NoEntry

\* C24: one notification of an informer produces at most one Event for the
\* handler.
C24_OneEventPerNotification ==
    \A i, j \in 1..Len(handled) :
        (handled[i].conn = handled[j].conn /\ handled[i].GVR = handled[j].GVR
            /\ handled[i].seq = handled[j].seq) => i = j

\* C25: when no AddResourceWatcher and no RemoveCluster is under way, a
\* connection that RemoveCluster took out of the registry has no watcher.
C25_NoWatcherOnRemovedCluster ==
    (aw = << >> /\ rc = None) =>
        \A k \in ConnIds : conns[k].removed => conns[k].Informers = {}

\* C26: at the step in which Shutdown returns, the file holds the store and
\* the cache, when there is one, has been closed.
C26_ShutdownFlushesAndCloses ==
    [][(sd = "wait" /\ sd' = "idle") =>
          /\ file' = Marshal(store')
          /\ dbCache' => dbClosed']_vars

\* C28: a version the store holds for a (cluster, GVR) is the version of an
\* Event for that (cluster, GVR) that the handler has been given.
C28_StoreNotAheadOfHandler ==
    \A c \in ClusterIDs, g \in GVRs :
        getResourceVersion(store, c, g) # 0 =>
            \E i \in EventsOf(c, g) : EventRV(handled[i]) = getResourceVersion(store, c, g)

\* C29: a connection is "connected" when a successful AddCluster returns, its
\* status is always "connected" or "error", and a connection whose status is
\* "error" keeps it in every step.
C29_ErrorStatusIsFinal ==
    /\ [][(Immediate("addCluster") /\ ret'.ok) =>
             conns'[clusters'[ret'.c]].Status = "connected"]_vars
    /\ [](\A k \in ConnIds : conns[k].Status \in {"connected", "error"})
    /\ [][\A k \in ConnIds : conns[k].Status = "error" => conns'[k].Status = "error"]_vars
C29_Witness ==
    \E k \in ConnIds :
        /\ conns[k].Status = "error"
        /\ conns[k].LastError = preflightLastError("secrets", ListForbidden.msg)
        /\ "pods" \in conns[k].synced
        /\ ret.op = "addWatcher" /\ ret.ok /\ ret.g = "pods"

\* C30: a watcher whose sync wait gave up has its cluster marked "error"
\* with the lastError of its GVR in the end; the marking leaves the watchers
\* of the cluster, the other connections and the registry as they are; the
\* AddResourceWatcher that registers returns while the wait is still pending.
C30_SyncTimeoutMarksCluster ==
    /\ \A k \in 1..MaxCalls, g \in GVRs :
          (k \in ConnIds /\ g \in conns[k].syncFailed)
             ~> (k \in ConnIds /\ conns[k].Status = "error"
                   /\ conns[k].LastError = syncLastError(g))
    /\ [][\A k \in ConnIds :
            conns'[k].syncFailed # conns[k].syncFailed /\ conns'[k].syncWait = conns[k].syncWait =>
               /\ conns'[k].Informers = conns[k].Informers
               /\ \A j \in ConnIds : j # k => conns'[j] = conns[j]
               /\ clusters' = clusters]_vars
    /\ [][\A k \in ConnIds, g \in GVRs :
            (g \in conns'[k].Informers /\ g \notin conns[k].Informers) =>
               g \in conns'[k].syncWait]_vars

\* C31: the version map is written only by a goroutine that holds rvs.mu
\* for writing: while a save holds rvs.mu.RLock (it has marshalled and not
\* yet written) no step changes the map, and the process never stops on a
\* concurrent map access.
C31_StoreMapOnlyUnderItsLock ==
    /\ [](~crashed)
    /\ [][saves.writing # {} => store' = store]_vars

\* C32: the status, lastError, pinned flag and watchers of a connection are
\* accessed under its cluster.mu only: while RemoveCluster holds cluster.mu
\* of a connection (it waits in Factory.Shutdown) no step changes them.
C32_ClusterFieldsOnlyUnderClusterMu ==
    [][\A k \in ConnIds :
          (rc # None /\ rc' = rc /\ rc.conn = k) =>
             /\ conns'[k].Status = conns[k].Status
             /\ conns'[k].LastError = conns[k].LastError
             /\ conns'[k].Informers = conns[k].Informers
             /\ conns'[k].IsPinned = conns[k].IsPinned]_vars

C34_MistypedPayloadDropped ==
    [][\A k \in ConnIds, g \in GVRs, i \in 1..MaxListeners :
          /\ (HandleEventBegin(k, g, i) /\ Head(listeners[k][g][i].queue).tomb) =>
                /\ store' = store /\ saves' = saves /\ file' = file
                /\ cacheWrites' = cacheWrites /\ rows' = rows /\ handled' = handled
          /\ (HandleEventEmit(k, g, i) /\ listeners[k][g][i].cur.tomb) =>
                /\ handled' = handled
                /\ store' = store /\ cacheWrites' = cacheWrites /\ rows' = rows
          /\ (HandleEventEmit(k, g, i) /\ listeners[k][g][i].cur.oldMistyped) =>
                /\ Len(handled') = Len(handled) + 1
                /\ LET e == handled'[Len(handled')]
                   IN /\ e.Type = "MODIFIED" /\ e.OldObject = None
                      /\ e.ClusterID = conns[k].ID /\ e.GVR = g
                      /\ e.Name = listeners[k][g][i].cur.name
                      /\ EventRV(e) = listeners[k][g][i].cur.rv
                      /\ store[e.ClusterID] # NoEntry]_vars
\* the add of an object was delivered, its tombstone was dropped: nothing is
\* left to run and the handler holds the one Event
C34_Witness ==
    /\ nSeq = 2 /\ Len(handled) = 1 /\ handled[1].Type = "ADDED"
    /\ NoCallbackRunning
    /\ \A k \in ConnIds, g \in GVRs :
          \A i \in 1..Len(listeners[k][g]) : listeners[k][g][i].queue = << >>
    /\ indexer[handled[1].conn][handled[1].GVR][handled[1].Name] = 0

C35_UnregisteredClusterNotFound ==
    [][\A c \in ClusterIDs, g \in GVRs, name \in Names :
          \A ans \in GetAnswers("s1", g, name) :
             (GetResourceWithSensitivityInfo(c, g, name, ans) /\ clusters[c] = NoConn) =>
                /\ ~ret'.ok
                /\ ret'.msg = clusterNotFound(c)]_vars

C37_NoConnectionLeaks ==
    \A k \in ConnIds :
        clusters[conns[k].ID] # k =>
            /\ conns[k].Informers = {}
            /\ conns[k].shuttingDown
====
